---- MODULE Spec2Model ----
(***************************************************************************)
(* BOLO-Signature: the field anchoring model of the React front end        *)
(* (src/unnamed/part_000, App) and the /sign-pdf burn handler of the       *)
(* Express back end (src/backend/index.js).                                *)
(*                                                                         *)
(* JavaScript numbers are modelled as exact rationals [n, d] in lowest     *)
(* terms with d > 0; d = 0 encodes the non-finite values (n = 0 is NaN,    *)
(* n = 1 / -1 is +Infinity / -Infinity).  Binary rounding of IEEE doubles  *)
(* is not modelled.  null / undefined is the record Null, strings are      *)
(* records [str |-> ...].                                                  *)
(***************************************************************************)
EXTENDS Integers, Sequences, FiniteSets

VARIABLES
    fields,       \* App state: useState([]) - the ordered field collection
    renderSize,   \* App state: useState({ width: 0 })
    pageMeta,     \* App state: useState({ widthPts: null, heightPts: null })
    selectedId,   \* App state: useState(null)
    posted,       \* body handed to axios.post by the latest handler, else Null
    pc,           \* /sign-pdf: position of the request handler
    body,         \* /sign-pdf: req.body
    signatureList,\* /sign-pdf: let signatureList
    cursor,       \* /sign-pdf: index of the entry the for-of loop is at
    draws,        \* /sign-pdf: page.drawImage calls made on pdfDoc, in order
    signedFiles,  \* /sign-pdf: files written to signedDir by this request
    pdfFile,      \* /sign-pdf: the file at pdfPath, as the images burnt into it
    found,        \* /sign-pdf: what the request met outside: fs.existsSync(pdfPath)
                  \* and the outcome of the audit record, "unread" until met
    response      \* /sign-pdf: res.status(..).json(..), Null until sent

feVars == <<fields, renderSize, pageMeta, selectedId, posted>>
beVars == <<pc, body, signatureList, cursor, draws, signedFiles, pdfFile, found,
          response>>
vars == <<fields, renderSize, pageMeta, selectedId, posted,
          pc, body, signatureList, cursor, draws, signedFiles, pdfFile, found,
          response>>

-----------------------------------------------------------------------------
(* Bounds of the model *)

MaxFields == 2
MaxBatch == 3

-----------------------------------------------------------------------------
(* JavaScript values *)

Null == [null |-> TRUE]
Str(s) == [str |-> s]
EmptyStr == Str("")

Abs(i) == IF i < 0 THEN -i ELSE i
Sgn(i) == IF i < 0 THEN -1 ELSE IF i = 0 THEN 0 ELSE 1

RECURSIVE GCD(_, _)
GCD(a, b) == IF b = 0 THEN a ELSE GCD(b, a % b)

\* the number n/d (d >= 0), in lowest terms
Num(n, d) ==
    IF d = 0 THEN [n |-> Sgn(n), d |-> 0]
    ELSE LET g == GCD(Abs(n), d)
         IN  [n |-> Sgn(n) * (Abs(n) \div g), d |-> d \div g]

Whole(i) == Num(i, 1)
NaN == [n |-> 0, d |-> 0]
IsNumber(v) == DOMAIN v = {"n", "d"}
IsFinite(v) == IsNumber(v) /\ v.d # 0
IsNaN(v) == IsNumber(v) /\ v.d = 0 /\ v.n = 0

\* a * b
Mul(a, b) == Num(a.n * b.n, a.d * b.d)
\* a / b; a zero divisor (+0, the model has no -0) gives the infinity of the
\* sign of a, NaN for 0 / 0 and NaN / 0
Div(a, b) ==
    IF b.n = 0 /\ b.d # 0 THEN Num(a.n, 0)
    ELSE Num(a.n * b.d * Sgn(b.n), a.d * Abs(b.n))
\* a + b
Add(a, b) ==
    IF a.d = 0 /\ b.d = 0 THEN (IF a.n = b.n THEN a ELSE NaN)
    ELSE IF a.d = 0 THEN a
    ELSE IF b.d = 0 THEN b
    ELSE Num(a.n * b.d + b.n * a.d, a.d * b.d)
Neg(a) == [n |-> -a.n, d |-> a.d]
\* a - b
Sub(a, b) == Add(a, Neg(b))
\* a < b, a <= b (false when either is NaN)
Lt(a, b) ==
    /\ ~IsNaN(a)
    /\ ~IsNaN(b)
    /\ IF a.d = 0 /\ b.d = 0 THEN a.n < b.n ELSE a.n * b.d < b.n * a.d
Le(a, b) ==
    /\ ~IsNaN(a)
    /\ ~IsNaN(b)
    /\ IF a.d = 0 /\ b.d = 0 THEN a.n <= b.n ELSE a.n * b.d <= b.n * a.d
\* Math.min(a, b)
Min(a, b) == IF IsNaN(a) \/ IsNaN(b) THEN NaN ELSE IF Lt(b, a) THEN b ELSE a
\* Math.max(a, b)
Max(a, b) == IF IsNaN(a) \/ IsNaN(b) THEN NaN ELSE IF Lt(a, b) THEN b ELSE a

\* ToBoolean: null, undefined, 0, NaN and '' are falsy
Truthy(v) ==
    IF v = Null THEN FALSE
    ELSE IF IsNumber(v) THEN v.n # 0
    ELSE IF DOMAIN v = {"str"} THEN v.str # ""
    ELSE TRUE

-----------------------------------------------------------------------------
(* Front end: constants of App *)

fieldPalette == {"signature", "text", "image", "date", "radio"}

defaultBox == [widthNorm |-> Num(24, 100), heightNorm |-> Num(8, 100)]

\* dayjs().format('YYYY-MM-DD') at the time of the run
Today == Str("2026-10-29")

(* Inputs delivered by the collaborators *)

\* contentRect.width reported by the ResizeObserver
RenderWidths == {Whole(0), Whole(300), Whole(600)}
\* page.view of the loaded page: [xMin, yMin, xMax, yMax]
PageViews == {<<Whole(0), Whole(0), Whole(600), Whole(800)>>,
              <<Whole(0), Whole(0), Whole(0), Whole(0)>>}
\* positions react-rnd reports at the end of a drag or resize, in pixels
StopPositions == {[x |-> Whole(0), y |-> Whole(0)], [x |-> Whole(150), y |-> Whole(300)]}
\* box sizes, in pixels, a resize gesture can end at (width + delta.width,
\* height + delta.height). The handler passes the sums on as they are and the
\* box has no minWidth or minHeight, so a shrinking delta larger than the box
\* ends at a non-positive size: -28 x -18 is the default 72 x 32 text box of a
\* 300 x 400 viewport after delta {width: -100, height: -50}
StopSizes == {[width |-> Whole(300), height |-> Whole(200)],
              [width |-> Whole(0 - 28), height |-> Whole(0 - 18)]}
\* the data URL sigPad.toDataURL('image/png') yields for the drawn strokes
DrawnSignatures == {Str("data:image/png;base64,A")}
\* text typed into the textarea of a text field
TypedTexts == {Str("hi")}

-----------------------------------------------------------------------------
(* Front end: pure functions *)

toPdfCoordsFlipOnly(field, pm) ==
    IF field = Null \/ ~Truthy(pm.widthPts) \/ ~Truthy(pm.heightPts) THEN Null
    ELSE LET x == Mul(field.xNorm, pm.widthPts)
             yTop == Mul(field.yNorm, pm.heightPts)
             height == Mul(field.heightNorm, pm.heightPts)
         IN  [page |-> field.page,
              x |-> x,
              y |-> Sub(pm.heightPts, yTop),
              width |-> Mul(field.widthNorm, pm.widthPts),
              height |-> height,
              pageWidth |-> pm.widthPts,
              pageHeight |-> pm.heightPts]

toPdfCoordsNoFlip(field, pm) ==
    IF field = Null \/ ~Truthy(pm.widthPts) \/ ~Truthy(pm.heightPts) THEN Null
    ELSE LET x == Mul(field.xNorm, pm.widthPts)
             yTop == Mul(field.yNorm, pm.heightPts)
             height == Mul(field.heightNorm, pm.heightPts)
         IN  [page |-> field.page,
              x |-> x,
              y |-> yTop,
              width |-> Mul(field.widthNorm, pm.widthPts),
              height |-> height,
              pageWidth |-> pm.widthPts,
              pageHeight |-> pm.heightPts]

toPdfCoords(field, pm) ==
    IF field = Null \/ ~Truthy(pm.widthPts) \/ ~Truthy(pm.heightPts) THEN Null
    ELSE LET x == Mul(field.xNorm, pm.widthPts)
             yTop == Mul(field.yNorm, pm.heightPts)
             height == Mul(field.heightNorm, pm.heightPts)
         IN  [page |-> field.page,
              x |-> x,
              y |-> Sub(Sub(pm.heightPts, yTop), height),
              width |-> Mul(field.widthNorm, pm.widthPts),
              height |-> height,
              pageWidth |-> pm.widthPts,
              pageHeight |-> pm.heightPts]

updateFieldPositionWidthOnly(prev, rs, id, pos, renderHeight) ==
    [i \in 1..Len(prev) |->
       IF prev[i].id = id
       THEN [prev[i] EXCEPT
               !.xNorm = IF Truthy(rs.width) THEN Div(pos.x, rs.width) ELSE Whole(0),
               !.yNorm = IF Truthy(rs.width) THEN Div(pos.y, rs.width) ELSE Whole(0)]
       ELSE prev[i]]

\* an updater that moves every field, whatever its id
updateFieldPositionEveryField(prev, rs, id, pos, renderHeight) ==
    [i \in 1..Len(prev) |->
       [prev[i] EXCEPT
          !.xNorm = IF Truthy(rs.width) THEN Div(pos.x, rs.width) ELSE Whole(0),
          !.yNorm = IF Truthy(renderHeight) THEN Div(pos.y, renderHeight)
                    ELSE Whole(0)]]

\* the setFields updater of updateFieldPosition, closed over renderSize:
\* prev.map((f) => (f.id === id ? { ...f, xNorm, yNorm } : f))
updateFieldPosition(prev, rs, id, pos, renderHeight) ==
    [i \in 1..Len(prev) |->
       IF prev[i].id = id
       THEN [prev[i] EXCEPT
               !.xNorm = IF Truthy(rs.width) THEN Div(pos.x, rs.width) ELSE Whole(0),
               !.yNorm = IF Truthy(renderHeight) THEN Div(pos.y, renderHeight)
                         ELSE Whole(0)]
       ELSE prev[i]]

\* the setFields updater of updateFieldSize, closed over renderSize:
\* prev.map((f) => (f.id === id ? { ...f, widthNorm, heightNorm } : f))
updateFieldSize(prev, rs, id, size, renderHeight) ==
    [i \in 1..Len(prev) |->
       IF prev[i].id = id
       THEN [prev[i] EXCEPT
               !.widthNorm = IF Truthy(rs.width) THEN Div(size.width, rs.width)
                             ELSE prev[i].widthNorm,
               !.heightNorm = IF Truthy(renderHeight) THEN Div(size.height, renderHeight)
                              ELSE prev[i].heightNorm]
       ELSE prev[i]]

\* the setFields updater of updateFieldValue:
\* prev.map((f) => (f.id === id ? { ...f, value } : f))
updateFieldValue(prev, id, value) ==
    [i \in 1..Len(prev) |->
       IF prev[i].id = id THEN [prev[i] EXCEPT !.value = value] ELSE prev[i]]

\* fields.find((f) => f.id === selectedId) || null
selectedField ==
    IF \E i \in 1..Len(fields) : fields[i].id = selectedId
    THEN fields[CHOOSE i \in 1..Len(fields) :
                  /\ fields[i].id = selectedId
                  /\ \A j \in 1..(i - 1) : fields[j].id # selectedId]
    ELSE Null

selectedPdfCoords == toPdfCoords(selectedField, pageMeta)

\* the overlay is mounted: renderSize.width > 0 && pageMeta.widthPts && pageMeta.heightPts
OverlayShown ==
    /\ Lt(Whole(0), renderSize.width)
    /\ Truthy(pageMeta.widthPts)
    /\ Truthy(pageMeta.heightPts)

\* the pixel geometry the overlay derives for a field in the current render
renderHeight == Div(Mul(renderSize.width, pageMeta.heightPts), pageMeta.widthPts)
PixelRect(field) ==
    [x |-> Mul(field.xNorm, renderSize.width),
     y |-> Mul(field.yNorm, renderHeight),
     width |-> Mul(field.widthNorm, renderSize.width),
     height |-> Mul(field.heightNorm, renderHeight)]

\* a filter that keeps every filled field of page 1, whatever its type
RECURSIVE FilterSignaturesAnyType(_)
FilterSignaturesAnyType(fs) ==
    IF fs = << >> THEN << >>
    ELSE (IF Truthy(Head(fs).value) /\ Head(fs).page = Whole(1)
          THEN <<Head(fs)>> ELSE << >>)
         \o FilterSignaturesAnyType(Tail(fs))

\* fields.filter((f) => f.type === 'signature' && f.value && f.page === 1)
RECURSIVE FilterSignatures(_)
FilterSignatures(fs) ==
    IF fs = << >> THEN << >>
    ELSE (IF Head(fs).type = "signature" /\ Truthy(Head(fs).value) /\ Head(fs).page = Whole(1)
          THEN <<Head(fs)>> ELSE << >>)
         \o FilterSignatures(Tail(fs))

\* signatureFields.map((field) => ({ signatureDataUrl, coordinates }))
RECURSIVE ToSignatures(_, _)
ToSignatures(fs, pm) ==
    IF fs = << >> THEN << >>
    ELSE <<[signatureDataUrl |-> Head(fs).value,
            coordinates |-> toPdfCoords(Head(fs), pm)]>>
         \o ToSignatures(Tail(fs), pm)

-----------------------------------------------------------------------------
(* Front end: event handlers *)

\* crypto.randomUUID(): the k-th identifier generated is named k; identifiers are
\* generated by addField alone, one per field, and fields are never removed
randomUUID == Len(fields) + 1

ResizeObserverCbRescale(width) ==
    /\ renderSize' = [width |-> width]
    /\ fields' = [i \in 1..Len(fields) |->
                    [fields[i] EXCEPT
                       !.xNorm = IF Truthy(width)
                                 THEN Div(Mul(@, renderSize.width), width) ELSE @]]
    /\ posted' = Null
    /\ UNCHANGED <<pageMeta, selectedId, beVars>>

\* new ResizeObserver((entries) => setRenderSize({ width }))
ResizeObserverCb(width) ==
    /\ renderSize' = [width |-> width]
    /\ posted' = Null
    /\ UNCHANGED <<fields, pageMeta, selectedId, beVars>>

\* an addField that puts the new field in front of the others
addFieldFront(type) ==
    /\ Len(fields) < MaxFields
    /\ fields' = <<[id |-> randomUUID,
                    type |-> type,
                    page |-> Whole(1),
                    xNorm |-> Add(Num(12, 100), Mul(Whole(Len(fields)), Num(2, 100))),
                    yNorm |-> Add(Num(1, 10), Mul(Whole(Len(fields)), Num(2, 100))),
                    widthNorm |-> IF type = "signature" THEN Num(32, 100)
                                  ELSE defaultBox.widthNorm,
                    heightNorm |-> IF type = "signature" THEN Num(12, 100)
                                   ELSE defaultBox.heightNorm,
                    value |-> IF type = "date" THEN Today ELSE EmptyStr]>> \o fields
    /\ selectedId' = randomUUID
    /\ posted' = Null
    /\ UNCHANGED <<renderSize, pageMeta, beVars>>

\* samplePdf is one fixed file: every load of its page 1 reports the same view
handlePageLoad(view) ==
    /\ pageMeta.widthPts # Null =>
          pageMeta = [widthPts |-> Sub(view[3], view[1]),
                      heightPts |-> Sub(view[4], view[2])]
    /\ pageMeta' = [widthPts |-> Sub(view[3], view[1]),
                    heightPts |-> Sub(view[4], view[2])]
    /\ posted' = Null
    /\ UNCHANGED <<fields, renderSize, selectedId, beVars>>

addField(type) ==
    /\ Len(fields) < MaxFields
    /\ fields' = Append(fields,
          [id |-> randomUUID,
           type |-> type,
           page |-> Whole(1),
           xNorm |-> Add(Num(12, 100), Mul(Whole(Len(fields)), Num(2, 100))),
           yNorm |-> Add(Num(1, 10), Mul(Whole(Len(fields)), Num(2, 100))),
           widthNorm |-> IF type = "signature" THEN Num(32, 100)
                         ELSE defaultBox.widthNorm,
           heightNorm |-> IF type = "signature" THEN Num(12, 100)
                          ELSE defaultBox.heightNorm,
           value |-> IF type = "date" THEN Today ELSE EmptyStr])
    /\ selectedId' = randomUUID
    /\ posted' = Null
    /\ UNCHANGED <<renderSize, pageMeta, beVars>>

\* <Rnd onClick={() => setSelectedId(field.id)}>
onClick(i) ==
    /\ OverlayShown
    /\ i \in 1..Len(fields)
    /\ selectedId' = fields[i].id
    /\ posted' = Null
    /\ UNCHANGED <<fields, renderSize, pageMeta, beVars>>

\* <Rnd onDragStop={(_, data) => updateFieldPosition(field.id, data, renderHeight)}>
onDragStop(i, data) ==
    /\ OverlayShown
    /\ i \in 1..Len(fields)
    /\ fields' = updateFieldPosition(fields, renderSize, fields[i].id, data, renderHeight)
    /\ posted' = Null
    /\ UNCHANGED <<renderSize, pageMeta, selectedId, beVars>>

\* two updates of which the second maps the fields of the render instead of
\* the collection the first one produced
resizeStopUpdatesStale(i, delta, position) ==
    updateFieldPosition(fields, renderSize, fields[i].id, position, renderHeight)

\* the collection the two queued updaters of a resize-stop leave:
\* updateFieldSize(field.id, { width: width + delta.width,
\*                            height: height + delta.height }, renderHeight);
\* updateFieldPosition(field.id, position, renderHeight);
\* width and height are the pixel size of the render, and the sums are passed
\* on without a test of their sign
resizeStopUpdates(i, delta, position) ==
    LET px == PixelRect(fields[i])
        sized == updateFieldSize(fields, renderSize, fields[i].id,
                                 [width |-> Add(px.width, delta.width),
                                  height |-> Add(px.height, delta.height)],
                                 renderHeight)
    IN  updateFieldPosition(sized, renderSize, fields[i].id, position, renderHeight)

\* <Rnd onResizeStop={(_, __, ___, delta, position) => { updateFieldSize(..);
\*                                                       updateFieldPosition(..) }}>
onResizeStop(i, delta, position) ==
    /\ OverlayShown
    /\ i \in 1..Len(fields)
    /\ fields' = resizeStopUpdates(i, delta, position)
    /\ posted' = Null
    /\ UNCHANGED <<renderSize, pageMeta, selectedId, beVars>>

\* the value editors of the "Selected Field" panel
onValueChange(value) ==
    /\ selectedField # Null
    /\ \/ selectedField.type = "text" /\ value \in TypedTexts \cup {EmptyStr}
       \/ selectedField.type = "date" /\ value \in {Today, EmptyStr}
       \/ selectedField.type = "radio" /\ value \in {Str("yes"), EmptyStr}
    /\ fields' = updateFieldValue(fields, selectedField.id, value)
    /\ posted' = Null
    /\ UNCHANGED <<renderSize, pageMeta, selectedId, beVars>>

\* saveSignature: the pad is mounted for a selected signature field and is not empty
saveSignature(dataUrl) ==
    /\ selectedField # Null
    /\ selectedField.type = "signature"
    /\ fields' = updateFieldValue(fields, selectedField.id, dataUrl)
    /\ posted' = Null
    /\ UNCHANGED <<renderSize, pageMeta, selectedId, beVars>>

SignRequestNoGeometryCheck(fs, pm) ==
    IF Len(FilterSignatures(fs)) = 0 THEN Null
    ELSE [pdfId |-> Str("default"),
          signatures |-> ToSignatures(FilterSignatures(fs), pm)]

\* what handleSign hands to axios.post, Null when it returns early
SignRequest(fs, pm) ==
    IF ~Truthy(pm.widthPts) \/ ~Truthy(pm.heightPts) THEN Null
    ELSE IF Len(FilterSignatures(fs)) = 0 THEN Null
    ELSE [pdfId |-> Str("default"),
          signatures |-> ToSignatures(FilterSignatures(fs), pm)]

handleSign ==
    /\ posted' = SignRequest(fields, pageMeta)
    /\ UNCHANGED <<fields, renderSize, pageMeta, selectedId, beVars>>

-----------------------------------------------------------------------------
(* Specification of the front end *)

FeInit ==
    /\ fields = << >>
    /\ renderSize = [width |-> Whole(0)]
    /\ pageMeta = [widthPts |-> Null, heightPts |-> Null]
    /\ selectedId = Null
    /\ posted = Null

BeIdle ==
    /\ pc = "idle"
    /\ body = Null
    /\ signatureList = << >>
    /\ cursor = 0
    /\ draws = << >>
    /\ signedFiles = 0
    /\ pdfFile = << >>
    /\ found = [exists |-> "unread", audit |-> "unread"]
    /\ response = Null

Init == FeInit /\ BeIdle

Next ==
    \/ \E w \in RenderWidths : ResizeObserverCb(w)
    \/ \E v \in PageViews : handlePageLoad(v)
    \/ \E t \in fieldPalette : addField(t)
    \/ \E i \in 1..MaxFields : onClick(i)
    \/ \E i \in 1..MaxFields, p \in StopPositions : onDragStop(i, p)
    \/ \E i \in 1..MaxFields, s \in StopSizes, p \in StopPositions :
          /\ i <= Len(fields)
          /\ OverlayShown
          /\ onResizeStop(i, [width |-> Sub(s.width, PixelRect(fields[i]).width),
                              height |-> Sub(s.height, PixelRect(fields[i]).height)], p)
    \/ \E v \in TypedTexts \cup {Today, Str("yes"), EmptyStr} : onValueChange(v)
    \/ \E u \in DrawnSignatures : saveSignature(u)
    \/ handleSign

Spec == Init /\ [][Next]_vars

-----------------------------------------------------------------------------
(* Specification of the anchoring functions called directly: a caller that  *)
(* holds updateFieldPosition / updateFieldSize of the current render and    *)
(* invokes them with any identifier and any viewport height, the degenerate *)
(* ones included (the overlay itself only calls them while it is mounted).  *)

\* renderHeight arguments: 0, undefined and the height of a 300-wide render
CallHeights == {Whole(0), Null, Whole(400)}

CallUpdateFieldPosition(id, pos, rh) ==
    /\ fields' = updateFieldPosition(fields, renderSize, id, pos, rh)
    /\ UNCHANGED <<renderSize, pageMeta, selectedId, posted, beVars>>

CallUpdateFieldSize(id, size, rh) ==
    /\ fields' = updateFieldSize(fields, renderSize, id, size, rh)
    /\ UNCHANGED <<renderSize, pageMeta, selectedId, posted, beVars>>

NextFn ==
    \/ \E w \in RenderWidths : ResizeObserverCb(w)
    \/ \E t \in fieldPalette : addField(t)
    \/ \E id \in 1..(MaxFields + 1), p \in StopPositions, rh \in CallHeights :
          CallUpdateFieldPosition(id, p, rh)
    \/ \E id \in 1..(MaxFields + 1), sz \in StopSizes, rh \in CallHeights :
          CallUpdateFieldSize(id, sz, rh)

SpecFn == Init /\ [][NextFn]_vars

-----------------------------------------------------------------------------
(* Back end: POST /sign-pdf *)

\* pages of sample.pdf, the one document of pdfCatalog
PageCount == 1

UrlA == Str("data:image/png;base64,A")
UrlC == Str("data:image/png;base64,C")
UrlBad == Str("data:image/png;base64,notapng")

\* pdfDoc.embedPng(Buffer.from(signatureDataUrl.split(',').pop(), 'base64')):
\* the embedded image with its intrinsic size, Null when the bytes are no PNG
\* (embedPng rejects and the handler's catch takes over)
embedPng(signatureDataUrl) ==
    IF signatureDataUrl = UrlA THEN [width |-> Whole(400), height |-> Whole(200)]
    ELSE IF signatureDataUrl = UrlC THEN [width |-> Whole(150), height |-> Whole(100)]
    ELSE Null

\* Math.max(0, (coordinates.page || 1) - 1)
pageIndex(coordinates) ==
    Max(Whole(0),
        Sub(IF Truthy(coordinates.page) THEN coordinates.page ELSE Whole(1), Whole(1)))

\* pdfDoc.getPage(index) throws unless index is one of the document's pages
getPageThrows(index) ==
    ~(index.d = 1 /\ 0 <= index.n /\ index.n < PageCount)

drawRectCover(coordinates, signatureImage) ==
    LET boxWidth == coordinates.width
        boxHeight == coordinates.height
        scale == Max(Div(boxWidth, signatureImage.width),
                     Div(boxHeight, signatureImage.height))
        drawWidth == Mul(signatureImage.width, scale)
        drawHeight == Mul(signatureImage.height, scale)
    IN  [x |-> Add(coordinates.x, Div(Sub(boxWidth, drawWidth), Whole(2))),
         y |-> Add(coordinates.y, Div(Sub(boxHeight, drawHeight), Whole(2))),
         width |-> drawWidth,
         height |-> drawHeight]

drawRectCorner(coordinates, signatureImage) ==
    LET boxWidth == coordinates.width
        boxHeight == coordinates.height
        scale == Min(Div(boxWidth, signatureImage.width),
                     Div(boxHeight, signatureImage.height))
        drawWidth == Mul(signatureImage.width, scale)
        drawHeight == Mul(signatureImage.height, scale)
    IN  [x |-> Add(coordinates.x, Sub(boxWidth, drawWidth)),
         y |-> Add(coordinates.y, Sub(boxHeight, drawHeight)),
         width |-> drawWidth,
         height |-> drawHeight]

\* a fit that reduces an image to its box but never enlarges it
drawRectNoEnlarge(coordinates, signatureImage) ==
    LET boxWidth == coordinates.width
        boxHeight == coordinates.height
        scale == Min(Whole(1), Min(Div(boxWidth, signatureImage.width),
                                   Div(boxHeight, signatureImage.height)))
        drawWidth == Mul(signatureImage.width, scale)
        drawHeight == Mul(signatureImage.height, scale)
    IN  [x |-> Add(coordinates.x, Div(Sub(boxWidth, drawWidth), Whole(2))),
         y |-> Add(coordinates.y, Div(Sub(boxHeight, drawHeight), Whole(2))),
         width |-> drawWidth,
         height |-> drawHeight]

\* the options handed to page.drawImage: aspect fit, centred in the box
drawRect(coordinates, signatureImage) ==
    LET boxWidth == coordinates.width
        boxHeight == coordinates.height
        scale == Min(Div(boxWidth, signatureImage.width),
                     Div(boxHeight, signatureImage.height))
        drawWidth == Mul(signatureImage.width, scale)
        drawHeight == Mul(signatureImage.height, scale)
    IN  [x |-> Add(coordinates.x, Div(Sub(boxWidth, drawWidth), Whole(2))),
         y |-> Add(coordinates.y, Div(Sub(boxHeight, drawHeight), Whole(2))),
         width |-> drawWidth,
         height |-> drawHeight]

(* Request bodies *)

Box(page, x, y, w, h) ==
    [page |-> page, x |-> Whole(x), y |-> Whole(y),
     width |-> Whole(w), height |-> Whole(h)]

Entry(url, coordinates) == [signatureDataUrl |-> url, coordinates |-> coordinates]

\* the entries a signatures array is built from
Entries ==
    {Entry(UrlA, Box(Whole(1), 50, 100, 200, 80)),      \* height-limited fit
     Entry(UrlA, Box(Null, 0, 600, 300, 200)),          \* width-limited, no page
     Entry(UrlC, Box(Whole(1), 0, 600, 300, 200)),      \* box proportional to image
     Entry(Null, Box(Whole(1), 50, 100, 200, 80)),      \* no image
     Entry(EmptyStr, Box(Whole(1), 0, 600, 300, 200)),  \* empty image string
     Entry(UrlA, Null),                                 \* no coordinates
     Entry(UrlBad, Box(Whole(1), 50, 100, 200, 80)),    \* bytes that are no PNG
     Entry(UrlA, Box(Whole(2), 50, 100, 200, 80)),      \* page the document lacks
     Entry(UrlC, Box(Whole(1), 10, 10, -20, 50))}       \* box of negative width

\* the elements a signatures array is built from: the entries, and null
ArrayEntries == Entries \cup {Null}

RECURSIVE SeqsUpTo(_, _)
SeqsUpTo(S, n) ==
    IF n = 0 THEN {<< >>}
    ELSE LET shorter == SeqsUpTo(S, n - 1)
         IN  shorter \cup {Append(q, e) : q \in {r \in shorter : Len(r) = n - 1}, e \in S}

NoLegacy == Entry(Null, Null)

\* req.body: a signatures array alone, or a signatures array (of one element
\* at most) beside the legacy fields, or the legacy single-signature fields,
\* or a signatures value that is no array
Bodies ==
    {[pdfId |-> Str("default"), signatures |-> [array |-> l],
      signatureDataUrl |-> Null, coordinates |-> Null] :
        l \in SeqsUpTo(ArrayEntries, MaxBatch)}
    \cup
    {[pdfId |-> Str("default"), signatures |-> [array |-> l],
      signatureDataUrl |-> UrlC, coordinates |-> Box(Whole(1), 0, 600, 300, 200)] :
        l \in SeqsUpTo(ArrayEntries, 1)}
    \cup
    {[pdfId |-> Str("default"), signatures |-> sg,
      signatureDataUrl |-> e.signatureDataUrl, coordinates |-> e.coordinates] :
        sg \in {Null, Str("all")}, e \in Entries \cup {NoLegacy}}

IsArray(v) == DOMAIN v = {"array"}

\* !signatureDataUrl || !coordinates
Lacking(sig) == ~Truthy(sig.signatureDataUrl) \/ ~Truthy(sig.coordinates)

Reply(status, message, error) ==
    [status |-> status, message |-> message, error |-> error,
     signedUrl |-> Null, originalHash |-> Null, signedHash |-> Null]

\* the catch block: res.status(500).json({ message, error: error.message })
Failed(error) == Reply(500, Str("Failed to sign PDF"), Str(error))

\* an HTTP request reaches the route
Receive(b) ==
    /\ pc = "idle"
    /\ body' = b
    /\ pc' = "begin"
    /\ UNCHANGED <<signatureList, cursor, draws, signedFiles, pdfFile, found, response,
                 feVars>>

\* a selection that prefers the legacy pair to the signatures array
selectListLegacyFirst(b) ==
    IF Truthy(b.signatureDataUrl) /\ Truthy(b.coordinates)
    THEN [array |-> <<Entry(b.signatureDataUrl, b.coordinates)>>]
    ELSE IF Truthy(b.signatures) /\ IsArray(b.signatures) THEN b.signatures
    ELSE Null

\* the list the handler selects, as [array |-> list]: the signatures array,
\* else the legacy pair, else Null (400)
selectList(b) ==
    IF Truthy(b.signatures) /\ IsArray(b.signatures) THEN b.signatures
    ELSE IF Truthy(b.signatureDataUrl) /\ Truthy(b.coordinates)
         THEN [array |-> <<Entry(b.signatureDataUrl, b.coordinates)>>]
    ELSE Null

\* lines 62-88: select the format, validate, read the original PDF and call
\* PDFDocument.load; the handler then awaits the loaded document
Begin(exists) ==
    /\ pc = "begin"
    /\ LET selected == selectList(body)
           list == selected.array
       IN  IF selected = Null
           THEN /\ response' = Reply(400,
                      Str("signatures array or signatureDataUrl+coordinates required"),
                      Null)
                /\ pc' = "done"
                /\ UNCHANGED <<signatureList, found>>
           ELSE IF Len(list) = 0
           THEN /\ response' = Reply(400, Str("At least one signature is required"), Null)
                /\ signatureList' = list
                /\ pc' = "done"
                /\ UNCHANGED found
           ELSE IF ~exists
           THEN /\ response' = Reply(404, Str("PDF not found"), Null)
                /\ signatureList' = list
                /\ found' = [found EXCEPT !.exists = "no"]
                /\ pc' = "done"
           ELSE /\ signatureList' = list
                /\ found' = [found EXCEPT !.exists = "yes"]
                /\ pc' = "load"
                /\ UNCHANGED response
    /\ UNCHANGED <<body, cursor, draws, signedFiles, pdfFile, feVars>>

\* lines 91-95: the first entry from c on that the loop does not `continue`
\* past (Len(signatureList) + 1 when there is none); an entry that is null is
\* not skipped, destructuring it throws
RECURSIVE SkipFrom(_)
SkipFrom(c) ==
    IF c > Len(signatureList) THEN c
    ELSE IF signatureList[c] # Null /\ Lacking(signatureList[c]) THEN SkipFrom(c + 1)
    ELSE c

\* a loop that answers with an error at an entry lacking image or box
LoopFromAbortOnInvalid(c) ==
    /\ cursor' = c
    /\ IF c > Len(signatureList)
       THEN /\ pc' = "save"
            /\ UNCHANGED response
       ELSE IF signatureList[c] = Null
       THEN /\ response' = Failed("Cannot destructure property 'signatureDataUrl' of 'sig' as it is null.")
            /\ pc' = "done"
       ELSE IF Lacking(signatureList[c])
       THEN /\ response' = Failed("invalid placement")
            /\ pc' = "done"
       ELSE IF getPageThrows(pageIndex(signatureList[c].coordinates))
       THEN /\ response' = Failed("getPage: index out of range")
            /\ pc' = "done"
       ELSE /\ pc' = "embed"
            /\ UNCHANGED response

\* lines 91-103 and 130: the loop runs on from entry c, without yielding, until
\* it awaits pdfDoc.embedPng for an entry, throws (a null entry at line 92,
\* getPage at line 98), or is through and awaits pdfDoc.save()
LoopFrom(c) ==
    LET n == SkipFrom(c)
    IN  /\ cursor' = n
        /\ IF n > Len(signatureList)
           THEN /\ pc' = "save"
                /\ UNCHANGED response
           ELSE IF signatureList[n] = Null
           THEN /\ response' = Failed("Cannot destructure property 'signatureDataUrl' of 'sig' as it is null.")
                /\ pc' = "done"
           ELSE IF getPageThrows(pageIndex(signatureList[n].coordinates))
           THEN /\ response' = Failed("getPage: index out of range")
                /\ pc' = "done"
           ELSE /\ pc' = "embed"
                /\ UNCHANGED response

\* line 88 resolved: the document is loaded and the loop starts
Load ==
    /\ pc = "load"
    /\ LoopFrom(1)
    /\ UNCHANGED <<body, signatureList, draws, signedFiles, pdfFile, found, feVars>>

\* a loop that stacks each image above the ones already drawn
BurnStepStacked ==
    /\ pc = "embed"
    /\ LET sig == signatureList[cursor]
       IN  IF embedPng(sig.signatureDataUrl) = Null
           THEN /\ response' = Failed("embedPng: not a PNG")
                /\ pc' = "done"
                /\ UNCHANGED <<cursor, draws>>
           ELSE /\ draws' = Append(draws,
                      [entry |-> cursor,
                       page |-> pageIndex(sig.coordinates),
                       image |-> sig.signatureDataUrl,
                       rect |-> drawRect(
                           [sig.coordinates EXCEPT
                              !.y = Add(@, Whole(100 * Len(draws)))],
                           embedPng(sig.signatureDataUrl))])
                /\ LoopFrom(cursor + 1)
    /\ UNCHANGED <<body, signatureList, signedFiles, pdfFile, found, feVars>>

\* line 103 settled, lines 105-127: pdfDoc.embedPng rejects and the catch
\* answers, or the image is drawn on the page fetched before the await and
\* the loop runs on
BurnStep ==
    /\ pc = "embed"
    /\ LET sig == signatureList[cursor]
       IN  IF embedPng(sig.signatureDataUrl) = Null
           THEN /\ response' = Failed("embedPng: not a PNG")
                /\ pc' = "done"
                /\ UNCHANGED <<cursor, draws>>
           ELSE /\ draws' = Append(draws,
                      [entry |-> cursor,
                       page |-> pageIndex(sig.coordinates),
                       image |-> sig.signatureDataUrl,
                       rect |-> drawRect(sig.coordinates,
                                         embedPng(sig.signatureDataUrl))])
                /\ LoopFrom(cursor + 1)
    /\ UNCHANGED <<body, signatureList, signedFiles, pdfFile, found, feVars>>

\* res.json({ signedUrl, originalHash, signedHash }) for the n-th signed file
Signed(n) ==
    [status |-> 200, message |-> Null, error |-> Null,
     signedUrl |-> [signed |-> n],
     originalHash |-> [sha256 |-> pdfFile],
     signedHash |-> [sha256 |-> draws]]

\* a save that writes the burnt document over the file at pdfPath
SaveInPlace(hasAuditLog) ==
    /\ pc = "save"
    /\ pdfFile' = draws
    /\ IF hasAuditLog
       THEN /\ pc' = "respond"
            /\ UNCHANGED <<response, found>>
       ELSE /\ response' = Signed(signedFiles + 1)
            /\ found' = [found EXCEPT !.audit = "console"]
            /\ pc' = "done"
    /\ UNCHANGED <<body, signatureList, cursor, draws, signedFiles, feVars>>

\* line 130 resolved, lines 131-157: fs.writeFileSync(signedPath, signedBuffer),
\* signedPath being a fresh name under signedDir, never pdfPath; then, with an
\* AuditLog model, AuditLog.create is called and awaited, and without one the
\* record goes to the console and the reply is sent at once
Save(hasAuditLog) ==
    /\ pc = "save"
    /\ signedFiles' = signedFiles + 1
    /\ IF hasAuditLog
       THEN /\ pc' = "respond"
            /\ UNCHANGED <<response, found>>
       ELSE /\ response' = Signed(signedFiles + 1)
            /\ found' = [found EXCEPT !.audit = "console"]
            /\ pc' = "done"
    /\ UNCHANGED <<body, signatureList, cursor, draws, pdfFile, feVars>>

\* how the audit record fares: no AuditLog model (console), stored, or rejected
AuditOutcomes == {"console", "stored", "rejected"}

\* lines 146-161: AuditLog.create settled: res.json(..), or the catch's 500
Respond(audit) ==
    /\ pc = "respond"
    /\ audit # "console"
    /\ response' =
         IF audit = "rejected" THEN Failed("AuditLog.create rejected")
         ELSE Signed(signedFiles)
    /\ found' = [found EXCEPT !.audit = audit]
    /\ pc' = "done"
    /\ UNCHANGED <<body, signatureList, cursor, draws, signedFiles, pdfFile,
                 feVars>>

NextBurn ==
    \/ \E b \in Bodies : Receive(b)
    \/ \E exists \in BOOLEAN : Begin(exists)
    \/ Load
    \/ BurnStep
    \/ \E hasAuditLog \in BOOLEAN : Save(hasAuditLog)
    \/ \E a \in AuditOutcomes \ {"console"} : Respond(a)

SpecBurn == Init /\ [][NextBurn]_vars

-----------------------------------------------------------------------------
(* Properties of the page-unit conversion (toPdfCoords) *)

PageIsPositive ==
    /\ pageMeta.widthPts # Null
    /\ pageMeta.heightPts # Null
    /\ Lt(Whole(0), pageMeta.widthPts)
    /\ Lt(Whole(0), pageMeta.heightPts)

ExampleField(f) ==
    /\ f.xNorm = Whole(0)
    /\ f.yNorm = Whole(0)
    /\ f.widthNorm = Num(1, 2)
    /\ f.heightNorm = Num(1, 4)

ExamplePageMeta == [widthPts |-> Whole(600), heightPts |-> Whole(800)]
ExamplePage == pageMeta = ExamplePageMeta

\* page geometries beyond the one the viewer loads: A4 as sample.pdf is
\* generated (595.28 x 842), US Letter, and a landscape page
PositivePages ==
    {[widthPts |-> Num(59528, 100), heightPts |-> Whole(842)],
     [widthPts |-> Whole(612), heightPts |-> Whole(792)],
     [widthPts |-> Whole(800), heightPts |-> Whole(600)]}

\* page geometries with a dimension absent or zero
DegeneratePages ==
    {[widthPts |-> Null, heightPts |-> Null],
     [widthPts |-> Null, heightPts |-> Whole(800)],
     [widthPts |-> Whole(600), heightPts |-> Null],
     [widthPts |-> Whole(0), heightPts |-> Whole(800)],
     [widthPts |-> Whole(600), heightPts |-> Whole(0)]}

\* C1: for every field and every page geometry with positive widthPts and
\* heightPts, toPdfCoords yields x = xNorm*widthPts, width = widthNorm*widthPts,
\* height = heightNorm*heightPts and y = heightPts - yNorm*heightPts -
\* heightNorm*heightPts, with the field's page; a 600x800 page and the field
\* {0, 0, 0.5, 0.25} give {x: 0, y: 600, width: 300, height: 200}.
C1_AxisFlip ==
    \A pm \in PositivePages \cup (IF PageIsPositive THEN {pageMeta} ELSE {}) :
      \A i \in 1..Len(fields) :
        LET f == fields[i]
            c == toPdfCoords(f, pm)
        IN  /\ c # Null
            /\ c.page = f.page
            /\ c.x = Mul(f.xNorm, pm.widthPts)
            /\ c.width = Mul(f.widthNorm, pm.widthPts)
            /\ c.height = Mul(f.heightNorm, pm.heightPts)
            /\ Add(Add(c.y, Mul(f.yNorm, pm.heightPts)),
                   Mul(f.heightNorm, pm.heightPts)) = pm.heightPts
            /\ (pm = ExamplePageMeta /\ ExampleField(f)) =>
                 /\ c.x = Whole(0)
                 /\ c.y = Whole(600)
                 /\ c.width = Whole(300)
                 /\ c.height = Whole(200)

\* the spec's example is reached: the selected field is {0, 0, 0.5, 0.25} on
\* the 600x800 page and its derived coordinates are defined
C1_Witness ==
    /\ ExamplePage
    /\ selectedField # Null
    /\ ExampleField(selectedField)
    /\ selectedPdfCoords # Null
    /\ selectedPdfCoords.y = Whole(600)

\* C2: the vertical flip maps yNorm = 0 to y = heightPts - height, a field
\* whose bottom touches the viewport bottom (yNorm + heightNorm = 1) to y = 0,
\* and every field inside the viewport to 0 <= y and y + height <= heightPts.
C2_FlipBounds ==
    \A pm \in PositivePages \cup (IF PageIsPositive THEN {pageMeta} ELSE {}) :
      \A i \in 1..Len(fields) :
        LET f == fields[i]
            c == toPdfCoords(f, pm)
            bottom == Add(f.yNorm, f.heightNorm)
        IN  /\ f.yNorm = Whole(0) => c.y = Sub(pm.heightPts, c.height)
            /\ bottom = Whole(1) => c.y = Whole(0)
            /\ (Le(Whole(0), f.yNorm) /\ Le(bottom, Whole(1))) =>
                 /\ Le(Whole(0), c.y)
                 /\ Le(Add(c.y, c.height), pm.heightPts)

\* a field whose bottom edge touches the viewport bottom, mapped to y = 0,
\* next to a field at the top edge
C2_Witness ==
    /\ PageIsPositive
    /\ \E i \in 1..Len(fields) :
         /\ Add(fields[i].yNorm, fields[i].heightNorm) = Whole(1)
         /\ Lt(Whole(0), fields[i].yNorm)
         /\ toPdfCoords(fields[i], pageMeta).y = Whole(0)
    /\ \E i \in 1..Len(fields) : fields[i].yNorm = Whole(0)

\* C3: toPdfCoords yields null when the field is absent or widthPts or
\* heightPts is absent or zero, and a burn request is posted only with page
\* geometry present, so no posted placement has null coordinates.
C3_NullGeometry ==
    /\ toPdfCoords(Null, pageMeta) = Null
    /\ (~Truthy(pageMeta.widthPts) \/ ~Truthy(pageMeta.heightPts)) =>
         \A i \in 1..Len(fields) : toPdfCoords(fields[i], pageMeta) = Null
    /\ \A pm \in DegeneratePages :
         /\ toPdfCoords(Null, pm) = Null
         /\ \A i \in 1..Len(fields) : toPdfCoords(fields[i], pm) = Null
    /\ posted # Null =>
         /\ Truthy(pageMeta.widthPts)
         /\ Truthy(pageMeta.heightPts)
         /\ \A k \in 1..Len(posted.signatures) :
              posted.signatures[k].coordinates # Null

\* a burn request has been posted, each placement carrying coordinates
C3_Witness ==
    /\ posted # Null
    /\ Len(posted.signatures) >= 1
    /\ \A k \in 1..Len(posted.signatures) :
         IsFinite(posted.signatures[k].coordinates.y)

\* a filled signature field exists while the page geometry is absent or zero:
\* handleSign has nothing to convert with
C3_WitnessNoGeometry ==
    /\ ~Truthy(pageMeta.widthPts)
    /\ Len(FilterSignatures(fields)) >= 1
    /\ posted = Null

-----------------------------------------------------------------------------
(* Properties of the burn handler *)

Positive(v) == IsFinite(v) /\ Lt(Whole(0), v)
PositiveBox(box) == Positive(box.width) /\ Positive(box.height)
PositiveImage(img) == img # Null /\ Positive(img.width) /\ Positive(img.height)

\* positive boxes and image sizes beyond those of the request bodies
ProbeBoxes ==
    {[page |-> Whole(1), x |-> Whole(0), y |-> Whole(0),
      width |-> Whole(1), height |-> Whole(1)],
     [page |-> Whole(1), x |-> Num(149, 2), y |-> Num(-5, 1),
      width |-> Num(1429, 10), height |-> Num(101, 4)],
     [page |-> Whole(1), x |-> Whole(72), y |-> Whole(640),
      width |-> Whole(30), height |-> Whole(500)]}
ProbeImages ==
    {[width |-> Whole(1), height |-> Whole(1)],
     [width |-> Whole(400), height |-> Whole(200)],
     [width |-> Whole(100), height |-> Whole(300)],
     [width |-> Whole(7), height |-> Whole(3)]}

Contained(r, box, img) ==
    /\ Le(r.width, box.width)
    /\ Le(r.height, box.height)
    /\ Positive(r.width)
    /\ Positive(r.height)
    /\ Mul(r.width, img.height) = Mul(r.height, img.width)

\* C4: for every placement box with positive width and height and every image
\* with positive size, the rectangle the burn loop draws satisfies
\* drawWidth <= box width, drawHeight <= box height and
\* drawWidth * imgH = drawHeight * imgW.
C4_AspectFitContained ==
    /\ \A k \in 1..Len(draws) :
         LET sig == signatureList[draws[k].entry]
             img == embedPng(sig.signatureDataUrl)
         IN  (PositiveBox(sig.coordinates) /\ PositiveImage(img)) =>
                Contained(draws[k].rect, sig.coordinates, img)
    /\ \A box \in ProbeBoxes, img \in ProbeImages :
         Contained(drawRect(box, img), box, img)

\* a request has been answered 200 after a draw limited by the box height
\* (narrower than its box) and a draw limited by the box width (lower than
\* its box)
C4_Witness ==
    /\ pc = "done"
    /\ response.status = 200
    /\ \E k \in 1..Len(draws) :
         LET box == signatureList[draws[k].entry].coordinates
         IN  PositiveBox(box) /\ Lt(draws[k].rect.width, box.width)
                              /\ draws[k].rect.height = box.height
    /\ \E k \in 1..Len(draws) :
         LET box == signatureList[draws[k].entry].coordinates
         IN  PositiveBox(box) /\ Lt(draws[k].rect.height, box.height)
                              /\ draws[k].rect.width = box.width

Centred(r, box) ==
    /\ r.x = Add(box.x, Div(Sub(box.width, r.width), Whole(2)))
    /\ r.y = Add(box.y, Div(Sub(box.height, r.height), Whole(2)))
    /\ Sub(r.x, box.x) = Sub(Add(box.x, box.width), Add(r.x, r.width))
    /\ Sub(r.y, box.y) = Sub(Add(box.y, box.height), Add(r.y, r.height))

ExampleBox(box) ==
    /\ box # Null
    /\ box.x = Whole(50)
    /\ box.y = Whole(100)
    /\ box.width = Whole(200)
    /\ box.height = Whole(80)

ExampleRect ==
    [x |-> Whole(70), y |-> Whole(100), width |-> Whole(160), height |-> Whole(80)]

\* C5: for every positive box and positive image size the drawn rectangle is
\* centred in the box on both axes (equal left/right and bottom/top margins);
\* box {50, 100, 200, 80} with a 400x200 image is drawn at x = 70, y = 100,
\* width 160, height 80.
C5_Centred ==
    /\ \A k \in 1..Len(draws) :
         LET sig == signatureList[draws[k].entry]
             img == embedPng(sig.signatureDataUrl)
         IN  /\ (PositiveBox(sig.coordinates) /\ PositiveImage(img)) =>
                   Centred(draws[k].rect, sig.coordinates)
             /\ (ExampleBox(sig.coordinates) /\ img = [width |-> Whole(400),
                                                       height |-> Whole(200)]) =>
                   draws[k].rect = ExampleRect
    /\ \A box \in ProbeBoxes, img \in ProbeImages :
         Centred(drawRect(box, img), box)

\* the spec's example has been drawn, and so has a rectangle with a margin on
\* the vertical axis
C5_Witness ==
    /\ \E k \in 1..Len(draws) :
         /\ ExampleBox(signatureList[draws[k].entry].coordinates)
         /\ draws[k].rect = ExampleRect
    /\ \E k \in 1..Len(draws) :
         Lt(signatureList[draws[k].entry].coordinates.y, draws[k].rect.y)

\* the entry is an object that lacks its image or its box
LackingEntry(sig) == sig # Null /\ Lacking(sig)

\* the entries of the selected list that lack signatureDataUrl or coordinates
LackingCount == Cardinality({k \in 1..Len(signatureList) : LackingEntry(signatureList[k])})
LoopFinished == pc \in {"save", "respond", "done"} /\ cursor > Len(signatureList)

\* C6: in a batch burn an entry (an object) that lacks signatureDataUrl or
\* coordinates is skipped: it is never drawn and the loop never aborts at it;
\* once the loop is through a batch of n entries of which k lack a value,
\* exactly n - k draws have been made, one per remaining entry in order, and
\* the request is answered 200 with a signedUrl unless the audit write that
\* follows the save is rejected.
C6_BatchSkip ==
    /\ \A k \in 1..Len(draws) :
         /\ ~LackingEntry(signatureList[draws[k].entry])
         /\ \A j \in 1..(k - 1) : draws[j].entry < draws[k].entry
    /\ LoopFinished => Len(draws) = Len(signatureList) - LackingCount
    /\ (pc = "done" /\ response.status = 500 /\ cursor <= Len(signatureList)) =>
          ~LackingEntry(signatureList[cursor])
    /\ (pc = "done" /\ LoopFinished) =>
          \/ response.status = 200 /\ response.signedUrl # Null
          \/ response.error = Str("AuditLog.create rejected")

\* a batch of 3 entries, 1 of them without image, answered 200 after exactly
\* 2 draws
C6_Witness ==
    /\ pc = "done"
    /\ Len(signatureList) = 3
    /\ Len(draws) = 2
    /\ response.status = 200
    /\ LackingCount = 1
    /\ \E k \in 1..3 : ~Truthy(signatureList[k].signatureDataUrl)
    /\ response.signedUrl # Null

\* the request carries no valid placement: no list, an empty list, or a list
\* whose entries all lack signatureDataUrl or coordinates
NoValidPlacement(b) ==
    LET selected == selectList(b)
    IN  \/ selected = Null
        \/ \A k \in 1..Len(selected.array) : LackingEntry(selected.array[k])

\* C7: a burn request with zero valid placements (an empty list, or a list in
\* which every entry lacks signatureDataUrl or coordinates) is rejected with
\* an error before any processing begins and produces no output document: no
\* signed file is written and no signedUrl is returned.
C7_EmptyBatchRejected ==
    /\ (pc \in {"save", "respond"} /\ NoValidPlacement(body)) => signedFiles = 0
    /\ (pc = "done" /\ NoValidPlacement(body)) =>
          /\ response.status \in {400, 404}
          /\ response.signedUrl = Null
          /\ signedFiles = 0
          /\ cursor = 0

\* the part of C7 the code keeps: a request with no list, or an empty list, is
\* answered 400 with nothing written
C7_EmptyListRejected ==
    (pc \notin {"idle", "begin"}
       /\ (selectList(body) = Null \/ Len(selectList(body).array) = 0)) =>
       /\ pc = "done"
       /\ response.status = 400
       /\ response.signedUrl = Null
       /\ signedFiles = 0

-----------------------------------------------------------------------------
(* Properties of the anchoring model *)

CoordsOf(f) == <<f.xNorm, f.yNorm, f.widthNorm, f.heightNorm>>

GestureStep ==
    \/ \E i \in 1..MaxFields, p \in StopPositions : onDragStop(i, p)
    \/ \E i \in 1..MaxFields, s \in StopSizes, p \in StopPositions :
          /\ i <= Len(fields)
          /\ OverlayShown
          /\ onResizeStop(i, [width |-> Sub(s.width, PixelRect(fields[i]).width),
                              height |-> Sub(s.height, PixelRect(fields[i]).height)], p)

\* C9: a viewport resize (and the page load that changes the derived render
\* height) leaves every field's xNorm, yNorm, widthNorm and heightNorm
\* unchanged; a step that changes the fractional coordinates of an existing
\* field is a drag-stop or a resize-stop gesture.
C9_ResizeInvariance ==
    [][/\ (renderSize' # renderSize \/ pageMeta' # pageMeta) => fields' = fields
       /\ (\E i \in 1..Len(fields) :
             i <= Len(fields') /\ CoordsOf(fields'[i]) # CoordsOf(fields[i]))
          => GestureStep]_vars

\* a field dragged to (150, 300) while the viewport was 300 wide still has
\* xNorm = 1/2, yNorm = 3/4 now that the viewport is 600 wide
C9_Witness ==
    /\ renderSize.width = Whole(600)
    /\ OverlayShown
    /\ \E i \in 1..Len(fields) :
         /\ fields[i].xNorm = Num(1, 2)
         /\ fields[i].yNorm = Num(3, 4)

\* pixel rectangles inside a viewport of at least 300 x 400
ProbeRects ==
    {[x |-> Whole(0), y |-> Whole(0), width |-> Whole(300), height |-> Whole(400)],
     [x |-> Whole(150), y |-> Whole(300), width |-> Whole(100), height |-> Whole(50)],
     [x |-> Whole(7), y |-> Whole(11), width |-> Whole(13), height |-> Whole(17)],
     [x |-> Num(1, 2), y |-> Num(601, 2), width |-> Num(299, 3), height |-> Whole(1)]}

\* C10: with the viewport fixed (width > 0, height > 0), storing a pixel
\* rectangle as updateFieldSize and updateFieldPosition do and deriving the
\* pixels back as the overlay does yields the rectangle that was stored.
C10_RoundTrip ==
    OverlayShown =>
      \A i \in 1..Len(fields), r \in ProbeRects :
        LET sized == updateFieldSize(fields, renderSize, fields[i].id,
                                     [width |-> r.width, height |-> r.height],
                                     renderHeight)
            moved == updateFieldPosition(sized, renderSize, fields[i].id,
                                         [x |-> r.x, y |-> r.y], renderHeight)
        IN  PixelRect(moved[i]) = r

\* a field stored by a resize-stop ending at 300x200, (150, 300) is rendered
\* at exactly those pixels in the same viewport
C10_Witness ==
    /\ OverlayShown
    /\ \E i \in 1..Len(fields) :
         PixelRect(fields[i]) = [x |-> Whole(150), y |-> Whole(300),
                                 width |-> Whole(300), height |-> Whole(200)]

\* the viewport a direct call sees is degenerate: renderSize.width or the
\* supplied renderHeight is zero or undefined
Degenerate(rh) == ~Truthy(renderSize.width) \/ ~Truthy(rh)

AllFinite ==
    \A i \in 1..Len(fields) :
      /\ IsFinite(fields[i].xNorm)
      /\ IsFinite(fields[i].yNorm)
      /\ IsFinite(fields[i].widthNorm)
      /\ IsFinite(fields[i].heightNorm)

\* C8: a call of updateFieldPosition or updateFieldSize made while the
\* viewport width or the supplied viewport height is zero or undefined leaves
\* xNorm, yNorm, widthNorm and heightNorm of every field as they were, and no
\* step stores NaN or Infinity in a fractional coordinate.
C8_DegenerateViewportRetains ==
    [][/\ \A id \in 1..(MaxFields + 1), p \in StopPositions, rh \in CallHeights :
            (Degenerate(rh) /\ CallUpdateFieldPosition(id, p, rh)) =>
               \A i \in 1..Len(fields) : CoordsOf(fields'[i]) = CoordsOf(fields[i])
       /\ \A id \in 1..(MaxFields + 1), sz \in StopSizes, rh \in CallHeights :
            (Degenerate(rh) /\ CallUpdateFieldSize(id, sz, rh)) =>
               \A i \in 1..Len(fields) : CoordsOf(fields'[i]) = CoordsOf(fields[i])
       /\ AllFinite']_vars

\* the part of C8 the code keeps: no fractional coordinate is ever NaN or
\* Infinity, whatever viewport the calls see
C8_NeverNonFinite == AllFinite

-----------------------------------------------------------------------------
(* Properties of the signing request the front end posts *)

\* positions of the fields handleSign burns: signature fields of page 1
\* holding a drawn signature
SignatureIndices ==
    {i \in 1..Len(fields) :
       /\ fields[i].type = "signature"
       /\ Truthy(fields[i].value)
       /\ fields[i].page = Whole(1)}

\* the k-th smallest position of SignatureIndices
KthSignatureIndex(k) ==
    CHOOSE i \in SignatureIndices :
      Cardinality({j \in SignatureIndices : j < i}) = k - 1

\* C11: the body posted by handleSign lists exactly the signature fields of
\* page 1 that hold a drawn signature, in field order, each with its drawn
\* image and its PDF rectangle; a text, date, radio or image field is never
\* listed, and no body is posted when no such signature field exists.
C11_OnlySignaturesPosted ==
    posted # Null =>
      /\ SignatureIndices # {}
      /\ Len(posted.signatures) = Cardinality(SignatureIndices)
      /\ \A k \in 1..Len(posted.signatures) :
           LET f == fields[KthSignatureIndex(k)]
           IN  /\ f.type = "signature"
               /\ posted.signatures[k] =
                    [signatureDataUrl |-> f.value,
                     coordinates |-> toPdfCoords(f, pageMeta)]

\* a body with one placement was posted while a filled date field stands
\* before the signed signature field
C11_Witness ==
    /\ posted # Null
    /\ Len(posted.signatures) = 1
    /\ Len(fields) = 2
    /\ fields[1].type = "date"
    /\ Truthy(fields[1].value)
    /\ fields[2].type = "signature"

-----------------------------------------------------------------------------
(* Properties of a burn request that fails *)

\* the request got as far as loading the document (lines 86-88) and was then
\* answered with an error
AbortedAfterBegin ==
    /\ response # Null
    /\ cursor >= 1
    /\ response.status # 200

\* C12: when a burn request aborts after the document was loaded (an image
\* that cannot be embedded, a page the document lacks, a rejected audit
\* write), the file at pdfPath is as it was before the request, and the reply
\* carries an error and no signedUrl.
C12_AbortLeavesOriginal ==
    AbortedAfterBegin =>
      /\ pdfFile = << >>
      /\ response.status = 500
      /\ response.error # Null
      /\ response.signedUrl = Null

\* a batch was aborted by its second placement after its first had been drawn
\* on the loaded document
C12_Witness ==
    /\ AbortedAfterBegin
    /\ Len(draws) = 1
    /\ cursor = 2
    /\ signedFiles = 0
    /\ pdfFile = << >>

-----------------------------------------------------------------------------
(* Properties of the placements the burn loop refuses *)

\* the box a draw was made for
BoxOfDraw(d) == signatureList[d.entry].coordinates

\* C13: a placement whose box width or height is not positive is not drawn:
\* every drawImage call made is for a box of positive width and positive
\* height.
C13_NonPositiveBoxNotDrawn ==
    \A k \in 1..Len(draws) :
      /\ Lt(Whole(0), BoxOfDraw(draws[k]).width)
      /\ Lt(Whole(0), BoxOfDraw(draws[k]).height)

\* the entry names an image and a box on a page of the document
Addressable(sig) ==
    sig # Null /\ ~Lacking(sig) /\ ~getPageThrows(pageIndex(sig.coordinates))
\* the entry's image bytes cannot be embedded
MalformedImage(sig) == Addressable(sig) /\ embedPng(sig.signatureDataUrl) = Null
\* the entry can be drawn
Drawable(sig) == Addressable(sig) /\ embedPng(sig.signatureDataUrl) # Null

\* C14: a placement whose image cannot be decoded is never drawn and does not
\* abort the other placements: once a request whose only faulty entries are
\* lacking ones and malformed images is answered, every drawable entry of the
\* batch has been drawn and no malformed one has.
C14_MalformedImageIsolated ==
    (/\ pc = "done"
     /\ cursor >= 1
     /\ \A k \in 1..Len(signatureList) :
          LackingEntry(signatureList[k]) \/ Addressable(signatureList[k]))
    => \A k \in 1..Len(signatureList) :
         /\ Drawable(signatureList[k]) => \E j \in 1..Len(draws) : draws[j].entry = k
         /\ MalformedImage(signatureList[k]) => \A j \in 1..Len(draws) : draws[j].entry # k

-----------------------------------------------------------------------------
(* Properties of the composition of a batch *)

\* the drawImage call an entry gives rise to, computed from the entry alone
DrawOf(sig) ==
    [page |-> pageIndex(sig.coordinates),
     image |-> sig.signatureDataUrl,
     rect |-> drawRect(sig.coordinates, embedPng(sig.signatureDataUrl))]

\* a draw without the position its entry had in the batch
Placed(d) == [page |-> d.page, image |-> d.image, rect |-> d.rect]

\* how often the draw v was made, and how often the batch asks for it
TimesDrawn(v) == Cardinality({j \in 1..Len(draws) : Placed(draws[j]) = v})
TimesAsked(v) ==
    Cardinality({k \in 1..Len(signatureList) :
                   Drawable(signatureList[k]) /\ DrawOf(signatureList[k]) = v})

\* C15: the page and rectangle of each draw are those computed from its own
\* entry alone, whatever was drawn before it; once the loop is through, the
\* multiset of draws (page, image, rectangle) is the multiset the entries of
\* the batch ask for, which is the same for every permutation of the batch;
\* a batch that aborts does so at an entry that throws, present in every
\* permutation, and leaves no signed document.
C15_DrawsIndependentOfOrder ==
    /\ \A j \in 1..Len(draws) : Placed(draws[j]) = DrawOf(signatureList[draws[j].entry])
    /\ LoopFinished =>
         /\ \A j \in 1..Len(draws) :
              TimesDrawn(Placed(draws[j])) = TimesAsked(Placed(draws[j]))
         /\ Len(draws) =
              Cardinality({k \in 1..Len(signatureList) : Drawable(signatureList[k])})
    /\ (pc = "done" /\ cursor >= 1 /\ ~LoopFinished) =>
         /\ signedFiles = 0
         /\ \E k \in 1..Len(signatureList) :
              ~LackingEntry(signatureList[k]) /\ ~Drawable(signatureList[k])

\* a batch answered 200 after the same placement was drawn twice, around a
\* different one
C15_Witness ==
    /\ pc = "done"
    /\ response.status = 200
    /\ Len(draws) = 3
    /\ Placed(draws[1]) = Placed(draws[3])
    /\ Placed(draws[1]) # Placed(draws[2])

-----------------------------------------------------------------------------
(* Properties of the reasons a reply gives *)

\* the box of the entry has a width or a height that is not positive
NonPositiveBox(sig) ==
    /\ sig # Null
    /\ ~Lacking(sig)
    /\ ~(Lt(Whole(0), sig.coordinates.width) /\ Lt(Whole(0), sig.coordinates.height))

\* the entry is an invalid placement: no image or no box, an image that
\* cannot be embedded, or a box of non-positive size
InvalidPlacement(sig) == LackingEntry(sig) \/ MalformedImage(sig) \/ NonPositiveBox(sig)

\* the request names nothing to sign: no list, or an empty one
NothingToSign == selectList(body) = Null \/ selectList(body).array = << >>

\* the batch mixes placements that can be burnt with invalid ones, each entry
\* being an object that names a page of the document, if any
MixedBatch ==
    /\ cursor >= 1
    /\ \A k \in 1..Len(signatureList) :
         LackingEntry(signatureList[k]) \/ Addressable(signatureList[k])
    /\ \E k \in 1..Len(signatureList) :
         Drawable(signatureList[k]) /\ ~NonPositiveBox(signatureList[k])
    /\ \E k \in 1..Len(signatureList) : InvalidPlacement(signatureList[k])

\* C16: an answered request with nothing to sign carries a client-input
\* error (400), a request that fails while processing carries a processing
\* error (500), and a batch holding invalid placements is answered with a
\* reason of its own: neither one of those two nor a plain success.
C16_FailuresDistinguishable ==
    pc = "done" =>
      /\ NothingToSign => response.status = 400
      /\ (cursor >= 1 /\ response.status # 200) => response.status = 500
      /\ MixedBatch =>
           /\ response.status \notin {400, 500}
           /\ ~(response.status = 200 /\ response.message = Null)

-----------------------------------------------------------------------------
(* Properties of the field collection *)

\* next differs from prev at most in xNorm and yNorm of the fields whose id
\* is id
OnlyPositionOf(prev, next, id) ==
    /\ Len(next) = Len(prev)
    /\ \A i \in 1..Len(prev) :
         IF prev[i].id = id
         THEN next[i] = [prev[i] EXCEPT !.xNorm = next[i].xNorm,
                                        !.yNorm = next[i].yNorm]
         ELSE next[i] = prev[i]

\* next differs from prev at most in widthNorm and heightNorm of the fields
\* whose id is id
OnlySizeOf(prev, next, id) ==
    /\ Len(next) = Len(prev)
    /\ \A i \in 1..Len(prev) :
         IF prev[i].id = id
         THEN next[i] = [prev[i] EXCEPT !.widthNorm = next[i].widthNorm,
                                        !.heightNorm = next[i].heightNorm]
         ELSE next[i] = prev[i]

KnownId(id) == \E i \in 1..Len(fields) : fields[i].id = id

\* C17: a call of updateFieldPosition changes nothing but xNorm and yNorm of
\* the field with the given id, a call of updateFieldSize nothing but its
\* widthNorm and heightNorm; every other field and every other attribute is
\* as before, and a call with an id no field has leaves the collection as it
\* was.  Stated of the collection each call would store, in every state the
\* calls can be made in.
C17_UpdateFrame ==
    /\ \A id \in 1..(MaxFields + 1), p \in StopPositions, rh \in CallHeights :
         LET next == updateFieldPosition(fields, renderSize, id, p, rh)
         IN  /\ OnlyPositionOf(fields, next, id)
             /\ ~KnownId(id) => next = fields
    /\ \A id \in 1..(MaxFields + 1), sz \in StopSizes, rh \in CallHeights :
         LET next == updateFieldSize(fields, renderSize, id, sz, rh)
         IN  /\ OnlySizeOf(fields, next, id)
             /\ ~KnownId(id) => next = fields

\* the first of two fields was moved to (1/2, 3/4) and resized to 1 x 1/2
\* while the second is as addField made it
C17_Witness ==
    /\ Len(fields) = 2
    /\ fields[1].xNorm = Num(1, 2)
    /\ fields[1].yNorm = Num(3, 4)
    /\ fields[1].widthNorm = Whole(1)
    /\ fields[1].heightNorm = Num(1, 2)
    /\ fields[2].xNorm = Num(14, 100)
    /\ fields[2].yNorm = Num(12, 100)
    /\ fields[2].widthNorm \in {Num(32, 100), defaultBox.widthNorm}

\* the ids of the collection are pairwise distinct
DistinctIds ==
    \A i, j \in 1..Len(fields) : fields[i].id = fields[j].id => i = j

\* C18: the ids of the fields are pairwise distinct in every state, and every
\* step keeps each field at its position in the collection with its id and
\* its type: no field is removed or reordered, and a field that is added is
\* put after the existing ones.
C18_IdentityAndOrder ==
    [][/\ Len(fields') >= Len(fields)
       /\ \A i \in 1..Len(fields) :
            /\ fields'[i].id = fields[i].id
            /\ fields'[i].type = fields[i].type
       /\ DistinctIds']_vars

\* two fields of different types, in the order they were added, after the
\* first was moved and the second was given a value
C18_Witness ==
    /\ Len(fields) = 2
    /\ fields[1].id = 1
    /\ fields[2].id = 2
    /\ fields[1].type = "signature"
    /\ fields[2].type = "text"
    /\ fields[1].xNorm = Num(1, 2)
    /\ Truthy(fields[2].value)

-----------------------------------------------------------------------------
(* Properties of the aspect fit: tightness *)

\* the box has the proportions of the image
Proportional(box, img) == Mul(box.width, img.height) = Mul(box.height, img.width)

\* r fills the box in one dimension, and in both exactly when the box has the
\* proportions of the image
Tight(r, box, img) ==
    /\ r.width = box.width \/ r.height = box.height
    /\ (r.width = box.width /\ r.height = box.height) <=> Proportional(box, img)

\* C20: for every placement box with positive width and height and every
\* image with positive size, the rectangle the burn loop draws has
\* drawWidth = box width or drawHeight = box height, and both exactly when
\* box.width * imgH = box.height * imgW.
C20_AspectFitTight ==
    /\ \A k \in 1..Len(draws) :
         LET sig == signatureList[draws[k].entry]
             img == embedPng(sig.signatureDataUrl)
         IN  (PositiveBox(sig.coordinates) /\ PositiveImage(img)) =>
                Tight(draws[k].rect, sig.coordinates, img)
    /\ \A box \in ProbeBoxes, img \in ProbeImages :
         Tight(drawRect(box, img), box, img)

\* a request has been answered 200 after a draw that fills its box in both
\* dimensions (a 150x100 image enlarged into a 300x200 box) and a draw that
\* fills its box in one dimension only
C20_Witness ==
    /\ pc = "done"
    /\ response.status = 200
    /\ \E k \in 1..Len(draws) :
         LET sig == signatureList[draws[k].entry]
         IN  /\ PositiveBox(sig.coordinates)
             /\ Proportional(sig.coordinates, embedPng(sig.signatureDataUrl))
             /\ draws[k].rect.width = Whole(300)
             /\ draws[k].rect.height = Whole(200)
    /\ \E k \in 1..Len(draws) :
         LET sig == signatureList[draws[k].entry]
         IN  /\ PositiveBox(sig.coordinates)
             /\ ~Proportional(sig.coordinates, embedPng(sig.signatureDataUrl))

-----------------------------------------------------------------------------
(* Properties of the resize-stop gesture *)

\* the delta react-rnd reports for a resize of field i that ends at size s
DeltaTo(i, s) ==
    [width |-> Sub(s.width, PixelRect(fields[i]).width),
     height |-> Sub(s.height, PixelRect(fields[i]).height)]

\* C21: after a resize-stop on a field, which calls updateFieldSize and then
\* updateFieldPosition, the field carries the new widthNorm and heightNorm
\* as well as the new xNorm and yNorm, all four taken over the viewport width
\* and height of the render the gesture was made in; its other attributes
\* and the other fields are as before.  Stated of the collection the
\* gesture stores, for every field, end size and end position, in every
\* state the overlay is shown in.
C21_ResizeStopKeepsBoth ==
    OverlayShown =>
      \A i \in 1..Len(fields), s \in StopSizes, p \in StopPositions :
        LET next == resizeStopUpdates(i, DeltaTo(i, s), p)
        IN  /\ Len(next) = Len(fields)
            /\ next[i] = [fields[i] EXCEPT
                             !.widthNorm = Div(s.width, renderSize.width),
                             !.heightNorm = Div(s.height, renderHeight),
                             !.xNorm = Div(p.x, renderSize.width),
                             !.yNorm = Div(p.y, renderHeight)]
            /\ \A j \in 1..Len(fields) : j # i => next[j] = fields[j]

\* in a viewport 300 wide and 400 high a field stands where a resize-stop
\* ending at 300x200, (150, 300) put it: size and position are both the new
\* ones
C21_Witness ==
    /\ renderSize.width = Whole(300)
    /\ OverlayShown
    /\ \E i \in 1..Len(fields) :
         /\ fields[i].widthNorm = Whole(1)
         /\ fields[i].heightNorm = Num(1, 2)
         /\ fields[i].xNorm = Num(1, 2)
         /\ fields[i].yNorm = Num(3, 4)

-----------------------------------------------------------------------------
(* The earlier single-signature handler (README.md) and the legacy format *)

\* the earlier POST /sign-pdf, run on the body b where the outside is as env
\* tells: the status it answers, the drawImage calls it makes and the files
\* it writes to signedDir
signPdfSingle(b, env) ==
    LET signatureDataUrl == b.signatureDataUrl
        coordinates == b.coordinates
        rejected(status) == [status |-> status, draws |-> << >>, signedFiles |-> 0]
    IN  IF ~Truthy(signatureDataUrl) \/ ~Truthy(coordinates) THEN rejected(400)
        ELSE IF env.exists = "no" THEN rejected(404)
        ELSE LET index == Max(Whole(0),
                              Sub(IF Truthy(coordinates.page) THEN coordinates.page
                                  ELSE Whole(1), Whole(1)))
                 signatureImage == embedPng(signatureDataUrl)
             IN  IF getPageThrows(index) \/ signatureImage = Null THEN rejected(500)
                 ELSE LET boxWidth == coordinates.width
                          boxHeight == coordinates.height
                          scale == Min(Div(boxWidth, signatureImage.width),
                                       Div(boxHeight, signatureImage.height))
                          drawWidth == Mul(signatureImage.width, scale)
                          drawHeight == Mul(signatureImage.height, scale)
                          drawn ==
                            <<[page |-> index,
                               image |-> signatureDataUrl,
                               rect |->
                                 [x |-> Add(coordinates.x,
                                            Div(Sub(boxWidth, drawWidth), Whole(2))),
                                  y |-> Add(coordinates.y,
                                            Div(Sub(boxHeight, drawHeight), Whole(2))),
                                  width |-> drawWidth,
                                  height |-> drawHeight]]>>
                      IN  [status |-> IF env.audit = "rejected" THEN 500 ELSE 200,
                           draws |-> drawn,
                           signedFiles |-> 1]

\* what the batch handler has done for the request, in the same terms
Outcome ==
    [status |-> response.status,
     draws |-> [j \in 1..Len(draws) |-> Placed(draws[j])],
     signedFiles |-> signedFiles]

\* the body names no signatures array: the handler looks at the legacy pair
LegacyBody == ~(Truthy(body.signatures) /\ IsArray(body.signatures))

\* the body names a signatures array of one entry that holds an image and a
\* box
OneEntryBatch ==
    /\ Truthy(body.signatures) /\ IsArray(body.signatures)
    /\ Len(body.signatures.array) = 1
    /\ body.signatures.array[1] # Null
    /\ ~Lacking(body.signatures.array[1])

\* C22: a request without signatures array is answered as the earlier
\* single-signature handler answers its signatureDataUrl and coordinates:
\* same status, same page index, same one rectangle drawn, same file
\* written; a signatures array of one entry holding an image and a box is
\* answered as the earlier handler answers that entry, hence as the legacy
\* request of the same image and box; and a signatures array, when present,
\* is the list that is burnt, whatever the legacy fields hold.
C22_LegacyEquivalent ==
    /\ (pc = "done" /\ LegacyBody) => Outcome = signPdfSingle(body, found)
    /\ (pc = "done" /\ OneEntryBatch) =>
          Outcome = signPdfSingle(body.signatures.array[1], found)
    /\ (pc \notin {"idle", "begin"} /\ ~LegacyBody /\ body.signatures.array # << >>) =>
          signatureList = body.signatures.array

\* a legacy request of a 150x100 image for the box (0, 600, 300, 200) was
\* answered 200 after one draw filling the box
C22_Witness ==
    /\ pc = "done"
    /\ LegacyBody
    /\ response.status = 200
    /\ Len(draws) = 1
    /\ draws[1].image = UrlC
    /\ draws[1].rect = [x |-> Whole(0), y |-> Whole(600),
                        width |-> Whole(300), height |-> Whole(200)]

====
